---- MODULE Spec2Model ----
(***************************************************************************)
(* Attendance check-in of glass-flow-attend: the QuickCheckIn page         *)
(* (recordAttendance, checkLocation, startQRScan, generateStudentQR), the  *)
(* two writers of classSessions (ScheduleCourse.handleSchedule and         *)
(* SetQuiz.saveQuiz), the two account deletions (UserManagement.deleteUser *)
(* and AuthContext.deleteAccount), the attendance rates of the dashboards  *)
(* and analytics pages, the AuthContext (login, register, session restore,  *)
(* updateProfile), the bans of UserManagement and SecuritySettings, the     *)
(* ApproveEdits and Complaints pages, and the Dexie tables they share.      *)
(*                                                                         *)
(* Every `await` of an async handler is an interleaving point: a step of   *)
(* the model executes the awaited operation, resumes the handler with its  *)
(* result and runs the synchronous code up to the next await.  Operations  *)
(* issued outside db.transaction run in their own auto-commit transaction, *)
(* so steps of different handlers interleave freely.                       *)
(*                                                                         *)
(* Time is in minutes since midnight of day 0, in one canonical timezone.  *)
(***************************************************************************)
EXTENDS Integers, Sequences, FiniteSets, TLC

VARIABLES
    now,                \* the wall clock read by new Date() / Date.now()
    users,              \* db.users, indexed by its ++id key
    classSessions,      \* db.classSessions, indexed by its ++id key
    courseEnrollments,  \* db.courseEnrollments rows <<studentId, courseId>>
    attendanceRecords,  \* db.attendanceRecords, indexed by its ++id key
    messages,           \* db.messages, indexed by its ++id key
    bans,               \* db.bans, indexed by its ++id key
    autoIncrement,      \* per table: the last key its ++id generator issued
    pc,                 \* per page: the await (or timer) the flow is parked on
    user,               \* per page: useAuth().user.id
    sessionId,          \* per page: the sessionId state (0 = null)
    method,             \* per page: the method argument of recordAttendance
    data,               \* per page: the data argument of recordAttendance
    studentQR,          \* per page: the studentQR state
    selectedMethod,     \* per page: the selectedMethod state
    isCheckingLocation, \* per page: the isCheckingLocation state
    today,              \* per page: local today of recordAttendance
    enrolledCourseIds,  \* per page: local enrolledCourseIds of recordAttendance
    activeSessions,     \* per page: local activeSessions of checkLocation,
                        \*   the <<id, courseId>> of each row read
    targetSession,      \* per page: id of the local targetSession (0 = none)
    newRecord,          \* per page: the object passed to attendanceRecords.add
    toast,              \* per page: the toast the flow ended with
    stats,              \* what the last dashboard or analytics load set
    attendanceUserId,   \* localStorage 'attendanceUserId' (0 = no item)
    authUser,           \* per tab: the user state of its AuthProvider
    authPc,             \* per tab: the await its AuthContext call is parked on
    authLocal,          \* per tab: the arguments and locals of that call
    authToast,          \* per tab: the last toast of its AuthContext
    approveEdits,       \* the state of the ApproveEdits page
    complaints,         \* the state of the Complaints page
    scheduleToast       \* the toast the ScheduleCourse form ended with

vars == <<now, users, classSessions, courseEnrollments, attendanceRecords,
          autoIncrement, pc, user, sessionId, method, data, studentQR,
          selectedMethod, isCheckingLocation, today, enrolledCourseIds,
          activeSessions, targetSession, newRecord, toast, stats, messages,
          bans, attendanceUserId, authUser, authPc, authLocal, authToast,
          approveEdits, complaints, scheduleToast>>

dbVars == <<users, classSessions, courseEnrollments, attendanceRecords,
            messages, bans, autoIncrement>>

authVars == <<attendanceUserId, authUser, authPc, authLocal, authToast>>

uiVars == <<authVars, approveEdits, complaints, scheduleToast>>

locals == <<enrolledCourseIds, activeSessions, targetSession, newRecord>>

pageVars == <<pc, user, sessionId, method, data, studentQR, selectedMethod,
              isCheckingLocation, today, locals, toast>>

----------------------------------------------------------------------------
(* Bounds of the model *)

MaxPages == 2       \* QuickCheckIn pages (tabs), each running one flow
MaxSessions == 2    \* rows db.classSessions can grow to
MaxTabs == 2        \* browser tabs, each with its own AuthProvider
MaxUsers == 6       \* keys db.users can grow to
MaxMessages == 5    \* keys db.messages can grow to
MaxBans == 2        \* keys db.bans can grow to
MaxLoads == 2       \* list reloads one page can have in flight

Pages == 1..MaxPages
Tabs == 1..MaxTabs
Students == {1, 2}
Instructors == {3}
Courses == {1, 2}
Dates == {0}                    \* the dates a schedule form submits

\* 08:56, 09:00, 09:10, 09:20, 10:01 of day 0 and 09:00 of day 1
Instants == {536, 540, 550, 560, 601, 1980}
DayStarts == {1980}              \* 09:00 of day 1
Times == {540, 600}             \* the 'HH:MM' values a form submits
\* positions a device reports, in metres north and east of (0, 0)
Positions == {<<0, 0>>, <<99, 0>>, <<150, 0>>}
SomePositions == {<<0, 0>>, <<150, 0>>}
\* student 1 is enrolled in both courses, student 2 in course 1 only
EnrollmentTables == {{<<1, 1>>, <<1, 2>>, <<2, 1>>}}

\* db.users: two students, the instructor and the default administrator
Admins == {4}
UserTable ==
    (1 :> [role |-> "student", department |-> "CS", email |-> "s1@u.edu",
           isApproved |-> TRUE])
    @@ (2 :> [role |-> "student", department |-> "EE", email |-> "s2@u.edu",
              isApproved |-> TRUE])
    @@ (3 :> [role |-> "instructor", department |-> "CS", email |-> "i3@u.edu",
              isApproved |-> TRUE])
    @@ (4 :> [role |-> "admin", department |-> "", email |-> "admin@university.edu",
              isApproved |-> TRUE])

\* the last key each ++id generator has issued when the tables hold the four
\* accounts and nothing else
NoKeys == [users |-> 4, classSessions |-> 0, attendanceRecords |-> 0,
           messages |-> 0, bans |-> 0]

\* the user state of an AuthProvider before a login: null
NoUser == [id |-> 0]

\* a page that is not mounted
NoPage == [user |-> 0]

\* the stats state of a dashboard before its first load
NoStats == [view |-> "none"]

----------------------------------------------------------------------------
(* Helpers *)

MinutesPerDay == 24 * 60

\* new Date().toISOString().split('T')[0]
DateOf(t) == t \div MinutesPerDay

\* the first row of a Dexie collection: lowest primary key
First(S) == CHOOSE x \in S : \A y \in S : x <= y

SessionIds == DOMAIN classSessions

\* table.add(row), the ++id generator having issued key
Put(table, key, row) ==
    [k \in DOMAIN table \cup {key} |-> IF k = key THEN row ELSE table[k]]

\* the elements of a set of keys in ascending order
Ascending(S) ==
    CHOOSE f \in [1..Cardinality(S) -> S] :
        \A i, j \in 1..Cardinality(S) : i < j => f[i] < f[j]

\* table.add(rows[1]), ..., table.add(rows[n]), last being the last key issued
PutAll(table, last, rows) ==
    [k \in DOMAIN table \cup (last + 1)..(last + Len(rows)) |->
        IF k > last THEN rows[k - last] ELSE table[k]]

\* table.where(...).delete(), keys being the primary keys the clause matches
Without(table, keys) == [k \in DOMAIN table \ keys |-> table[k]]

\* db.courseEnrollments.where('studentId').equals(u).toArray().map(e => e.courseId)
EnrolledCourseIdsOf(u) == {c \in Courses : <<u, c>> \in courseEnrollments}

\* the sessions query without its enrollment filter
ActiveSessionsAnyCourse(date, enrolled) ==
    {s \in SessionIds : /\ classSessions[s].date = date
                        /\ classSessions[s].isActive}

\* the sessions query without its isActive filter
ActiveSessionsAnyFlag(date, enrolled) ==
    {s \in SessionIds : /\ classSessions[s].date = date
                        /\ classSessions[s].courseId \in enrolled}

\* db.classSessions.where('date').equals(today)
\*   .and(session => session.isActive && enrolledCourseIds.includes(session.courseId))
ActiveSessionsFor(date, enrolled) ==
    {s \in SessionIds : /\ classSessions[s].date = date
                        /\ classSessions[s].isActive
                        /\ classSessions[s].courseId \in enrolled}

\* db.classSessions.where('isActive').equals(true).and(date is today)
ActiveSessionsToday(date) ==
    {s \in SessionIds : /\ classSessions[s].isActive
                        /\ classSessions[s].date = date}

\* the existing-record query with its two keys exchanged
HasRecordKeysSwapped(s, u) ==
    \E i \in DOMAIN attendanceRecords :
        /\ attendanceRecords[i].sessionId = u
        /\ attendanceRecords[i].studentId = s

\* db.attendanceRecords.where('sessionId').equals(s).and(r => r.studentId === u).first()
HasRecord(s, u) ==
    \E i \in DOMAIN attendanceRecords :
        /\ attendanceRecords[i].sessionId = s
        /\ attendanceRecords[i].studentId = u

\* sessionId ? activeSessions.find(s => s.id === sessionId) || activeSessions[0]
\*           : activeSessions[0]
TargetSessionOf(sid, active) ==
    IF sid # 0 /\ sid \in active THEN sid ELSE First(active)

\* the object handed to db.attendanceRecords.add
NewRecord(s, u, m, d, t) ==
    [sessionId |-> s,
     studentId |-> u,
     status |-> "present",
     checkInTime |-> t,
     checkInMethod |-> m,
     location |-> d.location,
     ipAddress |-> IF m = "gps" THEN "undefined" ELSE "192.168.1.1",
     isManualOverride |-> FALSE,
     createdAt |-> t]

\* StudentDashboard: 30 min before to 15 min after the start
CanCheckIn(s, t) ==
    LET timeDiff == (classSessions[s].date * MinutesPerDay
                     + classSessions[s].startTime) - t
    IN  timeDiff <= 30 /\ timeDiff >= -15

NoData == [qrCode |-> <<>>, location |-> <<>>]

----------------------------------------------------------------------------
\* every page before it is opened (the useState initial values), and no
\* dashboard loaded
InitPages ==
    /\ pc = [p \in Pages |-> "closed"]
    /\ user = [p \in Pages |-> 0]
    /\ sessionId = [p \in Pages |-> 0]
    /\ method = [p \in Pages |-> "none"]
    /\ data = [p \in Pages |-> NoData]
    /\ studentQR = [p \in Pages |-> <<>>]
    /\ selectedMethod = [p \in Pages |-> "null"]
    /\ isCheckingLocation = [p \in Pages |-> FALSE]
    /\ today = [p \in Pages |-> 0]
    /\ enrolledCourseIds = [p \in Pages |-> {}]
    /\ activeSessions = [p \in Pages |-> {}]
    /\ targetSession = [p \in Pages |-> 0]
    /\ newRecord = [p \in Pages |-> <<>>]
    /\ toast = [p \in Pages |-> "none"]
    /\ stats = NoStats
    /\ approveEdits = NoPage
    /\ complaints = NoPage
    /\ scheduleToast = "none"

\* no tab is open and nobody is logged in
InitAuth ==
    /\ attendanceUserId = 0
    /\ authUser = [t \in Tabs |-> NoUser]
    /\ authPc = [t \in Tabs |-> "closed"]
    /\ authLocal = [t \in Tabs |-> <<>>]
    /\ authToast = [t \in Tabs |-> "none"]

Init ==
    /\ now = 536
    /\ users = UserTable
    /\ classSessions = <<>>
    /\ courseEnrollments \in EnrollmentTables
    /\ attendanceRecords = <<>>
    /\ messages = <<>>
    /\ bans = <<>>
    /\ autoIncrement = NoKeys
    /\ InitPages
    /\ InitAuth

\* the clock advances to a later instant of I
Advance(I) ==
    /\ \E t \in I : t > now /\ now' = t
    /\ UNCHANGED <<dbVars, stats, uiVars, pageVars>>

\* minutes pass
Tick == Advance(Instants)

\* a day passes
NextDay == Advance(DayStarts)

----------------------------------------------------------------------------
(* Writers of db.classSessions *)

\* handleSchedule rejecting only a start time after the end time
handleScheduleLax(i, courseId, date, startTime, endTime) ==
    /\ autoIncrement.classSessions < MaxSessions
    /\ ~(startTime > endTime)
    /\ LET enrolledStudents ==
               Ascending({e[1] : e \in {x \in courseEnrollments : x[2] = courseId}})
           notices == [k \in DOMAIN enrolledStudents |->
                          [senderId |-> i,
                           receiverId |-> enrolledStudents[k],
                           type |-> "general",
                           subject |-> "New Class Scheduled",
                           status |-> "pending",
                           metadata |-> <<>>]]
       IN  /\ messages' = PutAll(messages, autoIncrement.messages, notices)
           /\ autoIncrement' = [autoIncrement EXCEPT
                                   !.classSessions = @ + 1,
                                   !.messages = @ + Len(notices)]
    /\ scheduleToast' = "Class Scheduled"
    /\ classSessions' = Put(classSessions, autoIncrement.classSessions + 1,
          [courseId |-> courseId,
           instructorId |-> i,
           date |-> date,
           startTime |-> startTime,
           endTime |-> endTime,
           checkInMethod |-> "qr",
           attendanceZone |-> <<[latitude |-> 0, longitude |-> 0, radius |-> 100]>>,
           qrToken |-> <<>>,
           qrExpiry |-> <<>>,
           isActive |-> TRUE])
    /\ UNCHANGED <<now, stats, authVars, approveEdits, complaints, users,
                   courseEnrollments, attendanceRecords, bans, pageVars>>

\* ScheduleCourse.handleSchedule: the instructor submits the schedule form
\* with every field filled in (an incomplete form only raises a toast); the
\* session is added and every student enrolled in the course is sent a
\* message, in the order of the enrollments (taken in one step)
handleSchedule(i, courseId, date, startTime, endTime) ==
    /\ autoIncrement.classSessions < MaxSessions
    /\ ~(startTime >= endTime)          \* "End time must be after start time"
    /\ LET enrolledStudents ==
               Ascending({e[1] : e \in {x \in courseEnrollments : x[2] = courseId}})
           notices == [k \in DOMAIN enrolledStudents |->
                          [senderId |-> i,
                           receiverId |-> enrolledStudents[k],
                           type |-> "general",
                           subject |-> "New Class Scheduled",
                           status |-> "pending",
                           metadata |-> <<>>]]
       IN  /\ messages' = PutAll(messages, autoIncrement.messages, notices)
           /\ autoIncrement' = [autoIncrement EXCEPT
                                   !.classSessions = @ + 1,
                                   !.messages = @ + Len(notices)]
    /\ scheduleToast' = "Class Scheduled"
    /\ classSessions' = Put(classSessions, autoIncrement.classSessions + 1,
          [courseId |-> courseId,
           instructorId |-> i,
           date |-> date,
           startTime |-> startTime,
           endTime |-> endTime,
           checkInMethod |-> "qr",
           attendanceZone |-> <<[latitude |-> 0, longitude |-> 0, radius |-> 100]>>,
           qrToken |-> <<>>,
           qrExpiry |-> <<>>,
           isActive |-> TRUE])
    /\ UNCHANGED <<now, stats, authVars, approveEdits, complaints, users,
                   courseEnrollments, attendanceRecords, bans, pageVars>>

\* ScheduleCourse.handleSchedule with a start time that is not before the end
\* time: the "Invalid Time" toast and return
handleScheduleInvalid(i, courseId, date, startTime, endTime) ==
    /\ startTime >= endTime
    /\ scheduleToast' = "Invalid Time"
    /\ UNCHANGED <<now, stats, dbVars, authVars, approveEdits, complaints,
                   pageVars>>

\* SetQuiz.saveQuiz: the dummy session created for a quiz that has a course,
\* a title and a question
saveQuiz(i, courseId) ==
    /\ autoIncrement.classSessions < MaxSessions
    /\ autoIncrement' = [autoIncrement EXCEPT !.classSessions = @ + 1]
    /\ classSessions' = Put(classSessions, autoIncrement.classSessions + 1,
          [courseId |-> courseId,
           instructorId |-> i,
           date |-> DateOf(now),
           startTime |-> 9 * 60,
           endTime |-> 10 * 60,
           checkInMethod |-> "qr",
           attendanceZone |-> <<>>,
           qrToken |-> <<>>,
           qrExpiry |-> <<>>,
           isActive |-> TRUE])
    /\ UNCHANGED <<now, stats, uiVars, users, courseEnrollments,
                   attendanceRecords, messages, bans, pageVars>>

----------------------------------------------------------------------------
(* The QuickCheckIn page *)

\* the sessions StudentDashboard lists for student u: the next 7 days,
\* enrolled courses, the first three in date order
UpcomingClasses(u) ==
    LET relevant == {s \in SessionIds :
                        /\ classSessions[s].date >= DateOf(now)
                        /\ classSessions[s].date < DateOf(now) + 7
                        /\ classSessions[s].courseId \in EnrolledCourseIdsOf(u)}
        Before(x, s) == \/ classSessions[x].date < classSessions[s].date
                        \/ /\ classSessions[x].date = classSessions[s].date
                           /\ x < s
    IN  {s \in relevant : Cardinality({x \in relevant : Before(x, s)}) < 3}

\* The student opens the page: from the header link (no navigation state) or
\* from a "Check In Now" button of the dashboard, shown when canCheckIn.
OpenPage(p, u, sid) ==
    /\ pc[p] = "closed"
    /\ \/ sid = 0
       \/ sid \in UpcomingClasses(u) /\ CanCheckIn(sid, now)
    /\ pc' = [pc EXCEPT ![p] = "menu"]
    /\ user' = [user EXCEPT ![p] = u]
    /\ sessionId' = [sessionId EXCEPT ![p] = sid]
    /\ UNCHANGED <<now, stats, uiVars, dbVars, method, data, studentQR, selectedMethod,
                   today, locals, toast, isCheckingLocation>>

\* recordAttendance up to its first await: the enrollments query is issued
CallRecordAttendance(p, m, d) ==
    /\ method' = [method EXCEPT ![p] = m]
    /\ data' = [data EXCEPT ![p] = d]
    /\ pc' = [pc EXCEPT ![p] = "ra-enrollments"]

generateStudentQR(p) ==
    /\ pc[p] = "menu"
    /\ studentQR' = [studentQR EXCEPT ![p] = <<"STUDENT", user[p], now>>]
    /\ selectedMethod' = [selectedMethod EXCEPT ![p] = "qr-generate"]
    /\ pc' = [pc EXCEPT ![p] = "qr-generate"]
    /\ UNCHANGED <<now, stats, uiVars, dbVars, user, sessionId, method, data, today,
                   locals, toast, isCheckingLocation>>

\* the "Confirm Check-In" button of the qr-generate card
ConfirmCheckIn(p) ==
    /\ pc[p] = "qr-generate"
    /\ CallRecordAttendance(p, "qr", [qrCode |-> studentQR[p], location |-> <<>>])
    /\ UNCHANGED <<now, stats, uiVars, dbVars, user, sessionId, studentQR,
                   selectedMethod, today, locals, toast, isCheckingLocation>>

\* startQRScan arms the 3 second timer
startQRScan(p) ==
    /\ pc[p] = "menu"
    /\ selectedMethod' = [selectedMethod EXCEPT ![p] = "qr-scan"]
    /\ pc' = [pc EXCEPT ![p] = "qr-scan"]
    /\ UNCHANGED <<now, stats, uiVars, dbVars, user, sessionId, method, data,
                   studentQR, today, locals, toast, isCheckingLocation>>

\* the timer fires: handleQRScanResult(`INSTRUCTOR_QR_${Date.now()}`)
handleQRScanResult(p) ==
    /\ pc[p] = "qr-scan"
    /\ CallRecordAttendance(p, "qr",
           [qrCode |-> <<"INSTRUCTOR_QR", now>>, location |-> <<>>])
    /\ UNCHANGED <<now, stats, uiVars, dbVars, user, sessionId, studentQR,
                   selectedMethod, today, locals, toast, isCheckingLocation>>

\* checkLocation up to its first await: getCurrentPosition is pending
checkLocation(p) ==
    /\ pc[p] = "menu"
    /\ selectedMethod' = [selectedMethod EXCEPT ![p] = "location"]
    /\ isCheckingLocation' = [isCheckingLocation EXCEPT ![p] = TRUE]
    /\ pc' = [pc EXCEPT ![p] = "loc-position"]
    /\ UNCHANGED <<now, stats, uiVars, dbVars, user, sessionId, method, data,
                   studentQR, today, locals, toast>>

\* getCurrentPosition resolves; the active-sessions query is issued
LocationResolved(p, pos) ==
    /\ pc[p] = "loc-position"
    /\ data' = [data EXCEPT ![p] = [qrCode |-> <<>>, location |-> pos]]
    /\ pc' = [pc EXCEPT ![p] = "loc-sessions"]
    /\ UNCHANGED <<now, stats, uiVars, dbVars, user, sessionId, method, studentQR,
                   selectedMethod, today, locals, toast, isCheckingLocation>>

\* leaving the handler: its arguments and locals go out of scope, and the
\* finally block of checkLocation runs when the flow came through it
\* (isCheckingLocation is false already in the other flows)
Finish(p, t) ==
    /\ isCheckingLocation' = [isCheckingLocation EXCEPT ![p] = FALSE]
    /\ pc' = [pc EXCEPT ![p] = "done"]
    /\ toast' = [toast EXCEPT ![p] = t]
    /\ method' = [method EXCEPT ![p] = "none"]
    /\ data' = [data EXCEPT ![p] = NoData]
    /\ today' = [today EXCEPT ![p] = 0]
    /\ enrolledCourseIds' = [enrolledCourseIds EXCEPT ![p] = {}]
    /\ activeSessions' = [activeSessions EXCEPT ![p] = {}]
    /\ newRecord' = [newRecord EXCEPT ![p] = <<>>]

\* getCurrentPosition rejects and the catch block runs, without the finally
LocationRejectedStillChecking(p) ==
    /\ pc[p] = "loc-position"
    /\ pc' = [pc EXCEPT ![p] = "done"]
    /\ toast' = [toast EXCEPT ![p] = "Location Check Failed"]
    /\ UNCHANGED <<now, stats, uiVars, dbVars, user, sessionId, method, data, studentQR,
                   selectedMethod, isCheckingLocation, today, locals>>

\* getCurrentPosition rejects (denied, unavailable, or the 10 s timeout):
\* catch, then finally
LocationRejected(p) ==
    /\ pc[p] = "loc-position"
    /\ Finish(p, "Location Check Failed")
    /\ UNCHANGED <<now, stats, uiVars, dbVars, user, sessionId, studentQR,
                   selectedMethod, targetSession>>

\* the active-sessions query resolves; the enrollments query is issued
LocationSessions(p) ==
    /\ pc[p] = "loc-sessions"
    /\ activeSessions' = [activeSessions EXCEPT ![p] =
           {<<s, classSessions[s].courseId>> : s \in ActiveSessionsToday(DateOf(now))}]
    /\ pc' = [pc EXCEPT ![p] = "loc-enrollments"]
    /\ UNCHANGED <<now, stats, uiVars, dbVars, user, sessionId, method, data,
                   studentQR, selectedMethod, today, enrolledCourseIds,
                   targetSession, newRecord, toast, isCheckingLocation>>

\* the enrollments query resolves: validSessions, then recordAttendance('gps')
LocationEnrollments(p) ==
    /\ pc[p] = "loc-enrollments"
    /\ LET validSessions == {s \in activeSessions[p] :
                                s[2] \in EnrolledCourseIdsOf(user[p])}
       IN  IF validSessions = {}
           THEN /\ Finish(p, "Location Check Failed")
                /\ UNCHANGED <<now, stats, uiVars, dbVars, user, sessionId, studentQR,
                               selectedMethod, targetSession>>
           ELSE /\ CallRecordAttendance(p, "gps", data[p])
                /\ activeSessions' = [activeSessions EXCEPT ![p] = {}]
                /\ UNCHANGED <<now, stats, uiVars, dbVars, user, sessionId, studentQR,
                               selectedMethod, today, enrolledCourseIds,
                               targetSession, newRecord, toast,
                               isCheckingLocation>>

\* the enrollments query resolves; today is read; the sessions query is issued
RecordEnrollments(p) ==
    /\ pc[p] = "ra-enrollments"
    /\ enrolledCourseIds' = [enrolledCourseIds EXCEPT ![p] = EnrolledCourseIdsOf(user[p])]
    /\ today' = [today EXCEPT ![p] = DateOf(now)]
    /\ pc' = [pc EXCEPT ![p] = "ra-sessions"]
    /\ UNCHANGED <<now, stats, uiVars, dbVars, user, sessionId, method, data,
                   studentQR, selectedMethod, activeSessions, targetSession,
                   newRecord, toast, isCheckingLocation>>

\* the sessions query resolves: throw when it is empty, else pick
\* targetSession and issue the existing-record query
RecordSessions(p) ==
    /\ pc[p] = "ra-sessions"
    /\ LET active == ActiveSessionsFor(today[p], enrolledCourseIds[p])
       IN  IF active = {}
           THEN /\ Finish(p, "Check-In Failed")
                /\ UNCHANGED <<now, stats, uiVars, dbVars, user, sessionId, studentQR,
                               selectedMethod, targetSession>>
           ELSE /\ targetSession' = [targetSession EXCEPT ![p] =
                                         TargetSessionOf(sessionId[p], active)]
                /\ pc' = [pc EXCEPT ![p] = "ra-existing"]
                /\ UNCHANGED <<now, stats, uiVars, dbVars, user, sessionId, method,
                               data, studentQR, selectedMethod, today,
                               enrolledCourseIds, activeSessions, newRecord,
                               toast, isCheckingLocation>>

\* the existing-record query resolves: "Already Checked In" and return, else
\* the record is built and the add is issued
RecordExisting(p) ==
    /\ pc[p] = "ra-existing"
    /\ IF HasRecord(targetSession[p], user[p])
       THEN /\ Finish(p, "Already Checked In")
            /\ UNCHANGED <<now, stats, uiVars, dbVars, user, sessionId, studentQR,
                           selectedMethod, targetSession>>
       ELSE /\ newRecord' = [newRecord EXCEPT ![p] =
                   <<NewRecord(targetSession[p], user[p], method[p], data[p], now)>>]
            /\ pc' = [pc EXCEPT ![p] = "ra-add"]
            /\ UNCHANGED <<now, stats, uiVars, dbVars, user, sessionId, method, data,
                           studentQR, selectedMethod, today, enrolledCourseIds,
                           activeSessions, targetSession, toast,
                           isCheckingLocation>>

\* the add commits and resolves: "Check-In Successful"
RecordAdded(p) ==
    /\ pc[p] = "ra-add"
    /\ autoIncrement' = [autoIncrement EXCEPT !.attendanceRecords = @ + 1]
    /\ attendanceRecords' = Put(attendanceRecords, autoIncrement.attendanceRecords + 1,
                                newRecord[p][1])
    /\ Finish(p, "Check-In Successful")
    /\ UNCHANGED <<now, stats, uiVars, users, classSessions, courseEnrollments,
                   messages, bans, user, sessionId, studentQR, selectedMethod,
                   targetSession>>

\* the add commits its row and then rejects
RecordRejectedAfterCommit(p) ==
    /\ pc[p] = "ra-add"
    /\ autoIncrement' = [autoIncrement EXCEPT !.attendanceRecords = @ + 1]
    /\ attendanceRecords' = Put(attendanceRecords, autoIncrement.attendanceRecords + 1,
                                newRecord[p][1])
    /\ Finish(p, "Check-In Failed")
    /\ UNCHANGED <<now, stats, uiVars, users, classSessions, courseEnrollments,
                   messages, bans, user, sessionId, studentQR, selectedMethod,
                   targetSession>>

\* the add rejects, writing nothing: the catch block
RecordRejected(p) ==
    /\ pc[p] = "ra-add"
    /\ Finish(p, "Check-In Failed")
    /\ UNCHANGED <<now, stats, uiVars, dbVars, user, sessionId, studentQR,
                   selectedMethod, targetSession>>

----------------------------------------------------------------------------
Next ==
    \/ NextDay
    \/ \E i \in Instructors, c \in Courses, d \in Dates, st \in Times, et \in Times :
           handleSchedule(i, c, d, st, et)
    \/ \E i \in Instructors, c \in Courses : saveQuiz(i, c)
    \/ \E p \in Pages, u \in Students, sid \in {0} \cup SessionIds : OpenPage(p, u, sid)
    \/ \E p \in Pages : generateStudentQR(p)
    \/ \E p \in Pages : ConfirmCheckIn(p)
    \/ \E p \in Pages : startQRScan(p)
    \/ \E p \in Pages : handleQRScanResult(p)
    \/ \E p \in Pages : checkLocation(p)
    \/ \E p \in Pages, pos \in SomePositions : LocationResolved(p, pos)
    \/ \E p \in Pages : LocationRejected(p)
    \/ \E p \in Pages : LocationSessions(p)
    \/ \E p \in Pages : LocationEnrollments(p)
    \/ \E p \in Pages : RecordEnrollments(p)
    \/ \E p \in Pages : RecordSessions(p)
    \/ \E p \in Pages : RecordExisting(p)
    \/ \E p \in Pages : RecordAdded(p)
    \/ \E p \in Pages : RecordRejected(p)

Spec == Init /\ [][Next]_vars

\* One page, with the clock at the granularity of the check-in window and
\* every position.
NextWindow ==
    \/ Tick
    \/ \E i \in Instructors, c \in Courses, d \in Dates, st \in Times, et \in Times :
           handleSchedule(i, c, d, st, et)
    \/ \E i \in Instructors, c \in Courses : saveQuiz(i, c)
    \/ \E u \in Students, sid \in {0} \cup SessionIds : OpenPage(1, u, sid)
    \/ generateStudentQR(1)
    \/ ConfirmCheckIn(1)
    \/ startQRScan(1)
    \/ handleQRScanResult(1)
    \/ checkLocation(1)
    \/ \E pos \in Positions : LocationResolved(1, pos)
    \/ LocationRejected(1)
    \/ LocationSessions(1)
    \/ LocationEnrollments(1)
    \/ RecordEnrollments(1)
    \/ RecordSessions(1)
    \/ RecordExisting(1)
    \/ RecordAdded(1)
    \/ RecordRejected(1)

SpecWindow == Init /\ [][NextWindow]_vars

\* The same, with the schedule forms the validation turns down.
NextSchedule ==
    \/ NextWindow
    \/ \E i \in Instructors, c \in Courses, d \in Dates, st \in Times, et \in Times :
           handleScheduleInvalid(i, c, d, st, et)

SpecSchedule == Init /\ [][NextSchedule]_vars

----------------------------------------------------------------------------
(* Check-in against stored sessions *)

\* the steps of the QuickCheckIn flow of page 1
PageOne ==
    \/ generateStudentQR(1)
    \/ ConfirmCheckIn(1)
    \/ startQRScan(1)
    \/ handleQRScanResult(1)
    \/ checkLocation(1)
    \/ \E pos \in SomePositions : LocationResolved(1, pos)
    \/ LocationRejected(1)
    \/ LocationSessions(1)
    \/ LocationEnrollments(1)
    \/ RecordEnrollments(1)
    \/ RecordSessions(1)
    \/ RecordExisting(1)
    \/ RecordAdded(1)
    \/ RecordRejected(1)

\* a stored ClassSession row of today: any course, isActive either way
StoredSessions ==
    {[courseId |-> c,
      instructorId |-> i,
      date |-> 0,
      startTime |-> 9 * 60,
      endTime |-> 10 * 60,
      checkInMethod |-> "qr",
      attendanceZone |-> <<>>,
      qrToken |-> <<>>,
      qrExpiry |-> <<>>,
      isActive |-> a] : c \in Courses, i \in Instructors, a \in BOOLEAN}

\* db.classSessions holds rows of either isActive value when the student
\* opens the page
InitStored ==
    /\ now = 536
    /\ users = UserTable
    /\ \E n \in 1..MaxSessions : classSessions \in [1..n -> StoredSessions]
    /\ courseEnrollments \in EnrollmentTables
    /\ attendanceRecords = <<>>
    /\ messages = <<>>
    /\ bans = <<>>
    /\ autoIncrement = [NoKeys EXCEPT !.classSessions = Len(classSessions)]
    /\ InitPages
    /\ InitAuth

NextStored ==
    \/ \E u \in Students, sid \in {0} \cup SessionIds : OpenPage(1, u, sid)
    \/ PageOne

SpecStored == InitStored /\ [][NextStored]_vars

----------------------------------------------------------------------------
(* Leaving a check-in, and deleting accounts *)

\* a Back button of a method card: setSelectedMethod(null).  The scan timer
\* and a pending handler are left running; the page shows the menu again
\* once no flow is in flight.
Back(p) ==
    /\ selectedMethod[p] # "null"
    /\ selectedMethod' = [selectedMethod EXCEPT ![p] = "null"]
    /\ pc' = [pc EXCEPT ![p] = IF @ = "qr-generate" THEN "menu" ELSE @]
    /\ UNCHANGED <<now, stats, uiVars, dbVars, user, sessionId, method, data, studentQR,
                   isCheckingLocation, today, locals, toast>>

\* db.messages.where('senderId').equals(u) and .where('receiverId').equals(u)
MessagesOf(u) ==
    {m \in DOMAIN messages : messages[m].senderId = u \/ messages[m].receiverId = u}

\* deleteUser that also deletes the attendance records of the sessions it
\* deletes
deleteUserCascading(userId) ==
    /\ userId \in DOMAIN users
    /\ users[userId].role \in {"student", "instructor"}
    /\ LET sessions == {s \in SessionIds : classSessions[s].instructorId = userId}
       IN  /\ attendanceRecords' = Without(attendanceRecords,
                  {i \in DOMAIN attendanceRecords :
                      \/ attendanceRecords[i].studentId = userId
                      \/ attendanceRecords[i].sessionId \in sessions})
           /\ classSessions' = Without(classSessions, sessions)
    /\ courseEnrollments' = {e \in courseEnrollments : e[1] # userId}
    /\ messages' = Without(messages, MessagesOf(userId))
    /\ bans' = Without(bans, {b \in DOMAIN bans : bans[b].userId = userId})
    /\ users' = Without(users, {userId})
    /\ UNCHANGED <<now, stats, uiVars, autoIncrement, pageVars>>

\* UserManagement.deleteUser, confirmed by the admin: one transaction over
\* the student's records and enrollments, the messages sent or received, the
\* bans, the instructor's sessions, the user
deleteUser(userId) ==
    /\ userId \in DOMAIN users
    /\ users[userId].role \in {"student", "instructor"}
    /\ attendanceRecords' = Without(attendanceRecords,
           {i \in DOMAIN attendanceRecords : attendanceRecords[i].studentId = userId})
    /\ courseEnrollments' = {e \in courseEnrollments : e[1] # userId}
    /\ classSessions' = Without(classSessions,
           {s \in SessionIds : classSessions[s].instructorId = userId})
    /\ messages' = Without(messages, MessagesOf(userId))
    /\ bans' = Without(bans, {b \in DOMAIN bans : bans[b].userId = userId})
    /\ users' = Without(users, {userId})
    /\ UNCHANGED <<now, stats, uiVars, autoIncrement, pageVars>>

\* setUser(null) and localStorage.removeItem('attendanceUserId')
ClearSession(t) ==
    /\ authUser' = [authUser EXCEPT ![t] = NoUser]
    /\ attendanceUserId' = 0

\* AuthContext.deleteAccount in tab t with the right password (a wrong one
\* only raises a toast): one transaction over the user's records and the
\* user, then logout
deleteAccount(t) ==
    /\ authPc[t] = "idle"
    /\ authUser[t].id # 0
    /\ attendanceRecords' = Without(attendanceRecords,
           {i \in DOMAIN attendanceRecords :
               attendanceRecords[i].studentId = authUser[t].id})
    /\ users' = Without(users, {authUser[t].id})
    /\ ClearSession(t)
    /\ authToast' = [authToast EXCEPT ![t] = "Account Deleted"]
    /\ UNCHANGED <<now, stats, classSessions, courseEnrollments, messages, bans,
                   autoIncrement, authPc, authLocal, approveEdits, complaints,
                   scheduleToast, pageVars>>

\* a snapshot of the row of user u, as db.users.get(u) hands it to setUser
UserOf(u) ==
    [id |-> u, role |-> users[u].role, isApproved |-> users[u].isApproved,
     email |-> users[u].email]

\* tab 1 holds the session of a student or of the instructor, logged in
\* earlier
InitAccounts ==
    /\ now = 536
    /\ users = UserTable
    /\ classSessions = <<>>
    /\ courseEnrollments \in EnrollmentTables
    /\ attendanceRecords = <<>>
    /\ messages = <<>>
    /\ bans = <<>>
    /\ autoIncrement = NoKeys
    /\ InitPages
    /\ \E u \in Students \cup Instructors :
          /\ attendanceUserId = u
          /\ authUser = [t \in Tabs |-> IF t = 1 THEN UserOf(u) ELSE NoUser]
    /\ authPc = [t \in Tabs |-> IF t = 1 THEN "idle" ELSE "closed"]
    /\ authLocal = [t \in Tabs |-> <<>>]
    /\ authToast = [t \in Tabs |-> "none"]

NextAccounts ==
    \/ \E i \in Instructors, c \in Courses, d \in Dates, st \in Times, et \in Times :
           handleSchedule(i, c, d, st, et)
    \/ \E i \in Instructors, c \in Courses : saveQuiz(i, c)
    \/ \E u \in Students, sid \in {0} \cup SessionIds : OpenPage(1, u, sid)
    \/ PageOne
    \/ Back(1)
    \/ \E u \in Students \cup Instructors : deleteUser(u)
    \/ deleteAccount(1)

SpecAccounts == InitAccounts /\ [][NextAccounts]_vars

----------------------------------------------------------------------------
(* The AuthContext, approvals and bans *)

\* the addresses the login, register and profile forms submit
Emails == {"s1@u.edu", "new@u.edu"}
\* the roles RegisterForm offers
Roles == {"student", "instructor"}

besideAuth == <<now, stats, approveEdits, complaints, scheduleToast, pageVars>>

\* db.users.where('email').equals(email), by primary key
UsersWithEmail(email) == {u \in DOMAIN users : users[u].email = email}

\* an AuthContext call of tab t returns, having raised a toast
Return(t, msg) ==
    /\ authPc' = [authPc EXCEPT ![t] = "idle"]
    /\ authLocal' = [authLocal EXCEPT ![t] = <<>>]
    /\ authToast' = [authToast EXCEPT ![t] = msg]

\* setUser(u); localStorage.setItem('attendanceUserId', u.id)
SetSession(t, u) ==
    /\ authUser' = [authUser EXCEPT ![t] = UserOf(u)]
    /\ attendanceUserId' = u

\* the AuthProvider of tab t mounts: checkStoredSession reads the stored id
\* and, when there is one, issues db.users.get
OpenTab(t) ==
    /\ authPc[t] = "closed"
    /\ IF attendanceUserId # 0
       THEN /\ authPc' = [authPc EXCEPT ![t] = "restore-get"]
            /\ authLocal' = [authLocal EXCEPT ![t] =
                                [storedUserId |-> attendanceUserId]]
       ELSE /\ authPc' = [authPc EXCEPT ![t] = "idle"]
            /\ UNCHANGED authLocal
    /\ UNCHANGED <<besideAuth, dbVars, attendanceUserId, authUser, authToast>>

\* the get of checkStoredSession resolves: setUser(storedUser), or the stored
\* id is removed
checkStoredSession(t) ==
    /\ authPc[t] = "restore-get"
    /\ IF authLocal[t].storedUserId \in DOMAIN users
       THEN /\ authUser' = [authUser EXCEPT ![t] = UserOf(authLocal[t].storedUserId)]
            /\ UNCHANGED attendanceUserId
       ELSE /\ attendanceUserId' = 0
            /\ UNCHANGED authUser
    /\ authPc' = [authPc EXCEPT ![t] = "idle"]
    /\ authLocal' = [authLocal EXCEPT ![t] = <<>>]
    /\ UNCHANGED <<besideAuth, dbVars, authToast>>

\* login up to its await: the query by email is issued (the password typed
\* is the stored one: a wrong one only raises "Login Failed")
login(t, email) ==
    /\ authPc[t] = "idle"
    /\ authPc' = [authPc EXCEPT ![t] = "login-find"]
    /\ authLocal' = [authLocal EXCEPT ![t] = [email |-> email]]
    /\ UNCHANGED <<besideAuth, dbVars, attendanceUserId, authUser, authToast>>

\* LoginFound that lets an instructor in without looking at isApproved
LoginFoundUnchecked(t) ==
    /\ authPc[t] = "login-find"
    /\ LET found == UsersWithEmail(authLocal[t].email)
       IN  IF found = {}
           THEN /\ Return(t, "Login Failed")
                /\ UNCHANGED <<authUser, attendanceUserId>>
           ELSE /\ SetSession(t, First(found))
                /\ Return(t, "Welcome back!")
    /\ UNCHANGED <<besideAuth, dbVars>>

\* the query of login resolves with the first row of that email
LoginFound(t) ==
    /\ authPc[t] = "login-find"
    /\ LET found == UsersWithEmail(authLocal[t].email)
       IN  IF found = {}
           THEN /\ Return(t, "Login Failed")
                /\ UNCHANGED <<authUser, attendanceUserId>>
           ELSE IF /\ users[First(found)].role = "instructor"
                   /\ ~users[First(found)].isApproved
                THEN /\ Return(t, "Account Pending")
                     /\ UNCHANGED <<authUser, attendanceUserId>>
                ELSE /\ SetSession(t, First(found))
                     /\ Return(t, "Welcome back!")
    /\ UNCHANGED <<besideAuth, dbVars>>

\* register up to its first await: the query by email is issued
register(t, userData) ==
    /\ authPc[t] = "idle"
    /\ authPc' = [authPc EXCEPT ![t] = "register-existing"]
    /\ authLocal' = [authLocal EXCEPT ![t] = userData]
    /\ UNCHANGED <<besideAuth, dbVars, attendanceUserId, authUser, authToast>>

\* the query resolves: "Registration Failed" when a row has the email, else
\* newUser is built and the add is issued
RegisterExisting(t) ==
    /\ authPc[t] = "register-existing"
    /\ IF UsersWithEmail(authLocal[t].email) # {}
       THEN Return(t, "Registration Failed")
       ELSE /\ authPc' = [authPc EXCEPT ![t] = "register-add"]
            /\ authLocal' = [authLocal EXCEPT ![t] =
                   [role |-> authLocal[t].role,
                    department |-> authLocal[t].department,
                    email |-> authLocal[t].email,
                    isApproved |-> authLocal[t].role # "instructor"]]
            /\ UNCHANGED authToast
    /\ UNCHANGED <<besideAuth, dbVars, attendanceUserId, authUser>>

\* the add commits: an instructor is told to wait for approval, anyone else
\* is read back with db.users.get
RegisterAdded(t) ==
    /\ authPc[t] = "register-add"
    /\ autoIncrement.users < MaxUsers
    /\ autoIncrement' = [autoIncrement EXCEPT !.users = @ + 1]
    /\ users' = Put(users, autoIncrement.users + 1, authLocal[t])
    /\ IF authLocal[t].role = "instructor"
       THEN Return(t, "Registration Successful")
       ELSE /\ authPc' = [authPc EXCEPT ![t] = "register-get"]
            /\ authLocal' = [authLocal EXCEPT ![t] =
                                [userId |-> autoIncrement.users + 1]]
            /\ UNCHANGED authToast
    /\ UNCHANGED <<besideAuth, classSessions, courseEnrollments,
                   attendanceRecords, messages, bans, attendanceUserId, authUser>>

\* the get resolves: setUser(createdUser) when the row is still there
RegisterGot(t) ==
    /\ authPc[t] = "register-get"
    /\ IF authLocal[t].userId \in DOMAIN users
       THEN SetSession(t, authLocal[t].userId)
       ELSE UNCHANGED <<authUser, attendanceUserId>>
    /\ Return(t, "Welcome!")
    /\ UNCHANGED <<besideAuth, dbVars>>

\* InstructorProfile.handleSave: updateProfile up to its first await, the
\* update of the row of user.id being issued
updateProfile(t, updates) ==
    /\ authPc[t] = "idle"
    /\ authUser[t].id # 0
    /\ authUser[t].role = "instructor"
    /\ authPc' = [authPc EXCEPT ![t] = "profile-update"]
    /\ authLocal' = [authLocal EXCEPT ![t] = updates]
    /\ UNCHANGED <<besideAuth, dbVars, attendanceUserId, authUser, authToast>>

\* the update commits (a no-op when the row is gone); the get is issued
ProfileUpdated(t) ==
    /\ authPc[t] = "profile-update"
    /\ users' = [u \in DOMAIN users |->
                    IF u = authUser[t].id
                    THEN [users[u] EXCEPT !.email = authLocal[t].email]
                    ELSE users[u]]
    /\ authPc' = [authPc EXCEPT ![t] = "profile-get"]
    /\ UNCHANGED <<besideAuth, classSessions, courseEnrollments,
                   attendanceRecords, messages, bans, autoIncrement,
                   attendanceUserId, authUser, authLocal, authToast>>

\* the get resolves: setUser(updatedUser) and "Profile Updated", or false
ProfileGot(t) ==
    /\ authPc[t] = "profile-get"
    /\ IF authUser[t].id \in DOMAIN users
       THEN /\ authUser' = [authUser EXCEPT ![t] = UserOf(authUser[t].id)]
            /\ Return(t, "Profile Updated")
       ELSE /\ authPc' = [authPc EXCEPT ![t] = "idle"]
            /\ authLocal' = [authLocal EXCEPT ![t] = <<>>]
            /\ UNCHANGED <<authUser, authToast>>
    /\ UNCHANGED <<besideAuth, dbVars, attendanceUserId>>

\* AuthContext.logout
logout(t) ==
    /\ authPc[t] = "idle"
    /\ authUser[t].id # 0
    /\ ClearSession(t)
    /\ authToast' = [authToast EXCEPT ![t] = "Logged Out"]
    /\ UNCHANGED <<besideAuth, dbVars, authPc, authLocal>>

\* UserManagement.approveInstructor on a row of the pending instructors
approveInstructor(instructorId) ==
    /\ instructorId \in DOMAIN users
    /\ users[instructorId].role = "instructor"
    /\ ~users[instructorId].isApproved
    /\ users' = [users EXCEPT ![instructorId].isApproved = TRUE]
    /\ UNCHANGED <<besideAuth, classSessions, courseEnrollments,
                   attendanceRecords, messages, bans, autoIncrement, authVars>>

NextAuth ==
    \/ \E t \in Tabs : OpenTab(t)
    \/ \E t \in Tabs : checkStoredSession(t)
    \/ \E t \in Tabs, email \in Emails : login(t, email)
    \/ \E t \in Tabs : LoginFound(t)
    \/ \E t \in Tabs, email \in Emails, role \in Roles :
           register(t, [email |-> email, role |-> role, department |-> "CS"])
    \/ \E t \in Tabs : RegisterExisting(t)
    \/ \E t \in Tabs : RegisterAdded(t)
    \/ \E t \in Tabs : RegisterGot(t)
    \/ \E t \in Tabs, email \in Emails : updateProfile(t, [email |-> email])
    \/ \E t \in Tabs : ProfileUpdated(t)
    \/ \E t \in Tabs : ProfileGot(t)
    \/ \E t \in Tabs : logout(t)
    \/ \E u \in 1..MaxUsers : approveInstructor(u)

SpecAuth == Init /\ [][NextAuth]_vars

\* UserManagement.banUser on a row of the students or instructors: a ban of
\* 6 hours, entered by the admin
banUser(userId) ==
    /\ autoIncrement.bans < MaxBans
    /\ userId \in DOMAIN users
    /\ users[userId].role \in {"student", "instructor"}
    /\ autoIncrement' = [autoIncrement EXCEPT !.bans = @ + 1]
    /\ bans' = Put(bans, autoIncrement.bans + 1,
          [userId |-> userId,
           bannedBy |-> First(Admins),
           expiresAt |-> now + 6 * 60,
           isActive |-> TRUE])
    /\ UNCHANGED <<besideAuth, users, classSessions, courseEnrollments,
                   attendanceRecords, messages, authVars>>

\* SecuritySettings.liftBan on a row of the active bans
liftBan(banId) ==
    /\ banId \in DOMAIN bans
    /\ bans[banId].isActive
    /\ bans[banId].expiresAt > now
    /\ bans' = [bans EXCEPT ![banId].isActive = FALSE]
    /\ UNCHANGED <<besideAuth, users, classSessions, courseEnrollments,
                   attendanceRecords, messages, autoIncrement, authVars>>

\* Logins and session restores while the admin bans users and lifts bans.
NextBans ==
    \/ NextDay
    \/ \E t \in Tabs : OpenTab(t)
    \/ \E t \in Tabs : checkStoredSession(t)
    \/ \E t \in Tabs, email \in Emails : login(t, email)
    \/ \E t \in Tabs : LoginFound(t)
    \/ \E t \in Tabs : logout(t)
    \/ \E u \in 1..MaxUsers : banUser(u)
    \/ \E b \in 1..MaxBans : liftBan(b)

SpecBans == Init /\ [][NextBans]_vars

----------------------------------------------------------------------------
(* Profile edit requests: Profile.submitEditRequest and the ApproveEdits page *)

\* A write to db.messages takes effect in the step that issues it, so that
\* the writes of one page keep their order; the code after its await is a
\* later step.  The rows a reload reads are those its query finds when it is
\* issued, and setEditRequests shows them in a later step.

besideApproveEdits == <<now, stats, authVars, complaints, scheduleToast, pageVars>>

\* the keys of a table that can hold rows
MessageIds == 1..MaxMessages

\* db.messages.update(id, changes): nothing when the row is gone
UpdateMessage(id, status, metadata) ==
    [m \in DOMAIN messages |->
        IF m = id
        THEN [messages[m] EXCEPT !.status = status, !.metadata = metadata]
        ELSE messages[m]]

\* what a page keeps of a message row
Shown(m) ==
    [id |-> m,
     senderId |-> messages[m].senderId,
     status |-> messages[m].status,
     metadata |-> messages[m].metadata]

\* the rows of one type sent to user i whose sender is a stored user
Inbox(i, type) ==
    LET ids == {m \in DOMAIN messages :
                   /\ messages[m].receiverId = i
                   /\ messages[m].type = type
                   /\ messages[m].senderId \in DOMAIN users}
    IN  [m \in ids |-> Shown(m)]

\* a pending message of user u to each of the receivers, in that order; the
\* subject and the content, which no code reads back, are left empty
Letters(u, receivers, type) ==
    [k \in DOMAIN receivers |->
        [senderId |-> u,
         receiverId |-> receivers[k],
         type |-> type,
         subject |-> "",
         status |-> "pending",
         metadata |-> <<>>]]

\* the instructors of the courses of a student, then the admin
Recipients(u) ==
    LET instructors == IF EnrolledCourseIdsOf(u) = {}
                       THEN {}
                       ELSE Instructors \cap DOMAIN users
        admins == {a \in DOMAIN users : users[a].role = "admin"}
    IN  Ascending(instructors) \o (IF admins = {} THEN <<>> ELSE <<First(admins)>>)

\* Profile.submitEditRequest with a reason: a request to each instructor of
\* the student and one to the admin (taken in one step)
submitEditRequest(u) ==
    /\ u \in DOMAIN users
    /\ autoIncrement.messages + Len(Recipients(u)) <= MaxMessages
    /\ messages' = PutAll(messages, autoIncrement.messages,
                          Letters(u, Recipients(u), "profile_edit_request"))
    /\ autoIncrement' = [autoIncrement EXCEPT !.messages = @ + Len(Recipients(u))]
    /\ UNCHANGED <<besideApproveEdits, approveEdits, users, classSessions,
                   courseEnrollments, attendanceRecords, bans>>

\* the page mounts for instructor i: its useEffect calls loadEditRequests
OpenApproveEdits(i) ==
    /\ approveEdits = NoPage
    /\ i \in DOMAIN users
    /\ approveEdits' =
          [user |-> i,
           editRequests |-> <<>>,
           selectedRequest |-> <<>>,
           showDetailsDialog |-> FALSE,
           isLoading |-> FALSE,
           pc |-> "idle",
           approved |-> FALSE,
           sender |-> 0,
           reads |-> 0,
           loads |-> <<Inbox(i, "profile_edit_request")>>,
           toast |-> "none"]
    /\ UNCHANGED <<besideApproveEdits, dbVars>>

\* a loadEditRequests resolves: setEditRequests
loadEditRequests ==
    /\ approveEdits.user # 0
    /\ approveEdits.loads # <<>>
    /\ approveEdits' = [approveEdits EXCEPT !.editRequests = Head(approveEdits.loads),
                                            !.loads = Tail(@)]
    /\ UNCHANGED <<besideApproveEdits, dbVars>>

\* the View button of row r: the dialog opens, and markAsRead issues its
\* update when the row shown is pending
handleViewRequest(r) ==
    /\ approveEdits.user # 0
    /\ ~approveEdits.showDetailsDialog
    /\ r \in DOMAIN approveEdits.editRequests
    /\ IF approveEdits.editRequests[r].status = "pending"
       THEN /\ approveEdits.reads < MaxLoads
            /\ messages' = UpdateMessage(r, "read", messages[r].metadata)
            /\ approveEdits' = [approveEdits EXCEPT
                   !.selectedRequest = <<approveEdits.editRequests[r]>>,
                   !.showDetailsDialog = TRUE,
                   !.reads = @ + 1]
       ELSE /\ approveEdits' = [approveEdits EXCEPT
                   !.selectedRequest = <<approveEdits.editRequests[r]>>,
                   !.showDetailsDialog = TRUE]
            /\ UNCHANGED messages
    /\ UNCHANGED <<besideApproveEdits, users, classSessions, courseEnrollments,
                   attendanceRecords, bans, autoIncrement>>

\* the update of a markAsRead has resolved: loadEditRequests is called
markAsRead ==
    /\ approveEdits.user # 0
    /\ approveEdits.reads > 0
    /\ Len(approveEdits.loads) < MaxLoads
    /\ approveEdits' = [approveEdits EXCEPT
           !.reads = @ - 1,
           !.loads = Append(@, Inbox(approveEdits.user, "profile_edit_request"))]
    /\ UNCHANGED <<besideApproveEdits, dbVars>>

\* the dialog is closed with its Close button
CloseDetailsDialog ==
    /\ approveEdits.user # 0
    /\ approveEdits.showDetailsDialog
    /\ approveEdits' = [approveEdits EXCEPT !.showDetailsDialog = FALSE]
    /\ UNCHANGED <<besideApproveEdits, dbVars>>

\* approveRequest or denyRequest up to its first await, selected being the
\* selectedRequest of the render the handler belongs to and clicked what the
\* click has passed to setSelectedRequest
Decide(selected, clicked, approved) ==
    /\ approveEdits.pc = "idle"
    /\ ~approveEdits.isLoading
    /\ IF selected = <<>>
       THEN /\ approveEdits' = [approveEdits EXCEPT !.selectedRequest = clicked]
            /\ UNCHANGED messages
       ELSE /\ messages' = UpdateMessage(selected[1].id, "resolved", <<approved>>)
            /\ approveEdits' = [approveEdits EXCEPT
                   !.selectedRequest = clicked,
                   !.isLoading = TRUE,
                   !.pc = "update",
                   !.approved = approved,
                   !.sender = selected[1].senderId]
    /\ UNCHANGED <<besideApproveEdits, users, classSessions, courseEnrollments,
                   attendanceRecords, bans, autoIncrement>>

\* the Approve and Deny buttons of row r, shown while the row is pending or
\* read: setSelectedRequest(request); approveRequest() or denyRequest()
RowDecision(r, approved) ==
    /\ approveEdits.user # 0
    /\ ~approveEdits.showDetailsDialog
    /\ r \in DOMAIN approveEdits.editRequests
    /\ approveEdits.editRequests[r].status \in {"pending", "read"}
    /\ Decide(approveEdits.selectedRequest, <<approveEdits.editRequests[r]>>,
              approved)

\* the Approve button of the dialog, shown while the selected request is
\* pending or read
approveRequest ==
    /\ approveEdits.user # 0
    /\ approveEdits.showDetailsDialog
    /\ approveEdits.selectedRequest # <<>>
    /\ approveEdits.selectedRequest[1].status \in {"pending", "read"}
    /\ Decide(approveEdits.selectedRequest, approveEdits.selectedRequest, TRUE)

\* the Deny button of the dialog
denyRequest ==
    /\ approveEdits.user # 0
    /\ approveEdits.showDetailsDialog
    /\ approveEdits.selectedRequest # <<>>
    /\ approveEdits.selectedRequest[1].status \in {"pending", "read"}
    /\ Decide(approveEdits.selectedRequest, approveEdits.selectedRequest, FALSE)

\* the update has resolved: the notification to the sender is added
RequestUpdated ==
    /\ approveEdits.user # 0
    /\ approveEdits.pc = "update"
    /\ autoIncrement.messages < MaxMessages
    /\ autoIncrement' = [autoIncrement EXCEPT !.messages = @ + 1]
    /\ messages' = Put(messages, autoIncrement.messages + 1,
          [senderId |-> approveEdits.user,
           receiverId |-> approveEdits.sender,
           type |-> "general",
           subject |-> IF approveEdits.approved
                       THEN "Profile Edit Request Approved"
                       ELSE "Profile Edit Request Denied",
           status |-> "pending",
           metadata |-> <<>>])
    /\ approveEdits' = [approveEdits EXCEPT !.pc = "add"]
    /\ UNCHANGED <<besideApproveEdits, users, classSessions, courseEnrollments,
                   attendanceRecords, bans>>

\* the add has resolved: the toast, the dialog closed, loadEditRequests, and
\* the finally block
RequestNotified ==
    /\ approveEdits.user # 0
    /\ approveEdits.pc = "add"
    /\ Len(approveEdits.loads) < MaxLoads
    /\ approveEdits' = [approveEdits EXCEPT
           !.pc = "idle",
           !.isLoading = FALSE,
           !.showDetailsDialog = FALSE,
           !.sender = 0,
           !.toast = IF approveEdits.approved THEN "Request Approved"
                                              ELSE "Request Denied",
           !.loads = Append(@, Inbox(approveEdits.user, "profile_edit_request"))]
    /\ UNCHANGED <<besideApproveEdits, dbVars>>

NextEdits ==
    \/ \E u \in Students : submitEditRequest(u)
    \/ \E i \in Instructors : OpenApproveEdits(i)
    \/ loadEditRequests
    \/ \E r \in MessageIds : handleViewRequest(r)
    \/ markAsRead
    \/ CloseDetailsDialog
    \/ \E r \in MessageIds, approved \in BOOLEAN : RowDecision(r, approved)
    \/ approveRequest
    \/ denyRequest
    \/ RequestUpdated
    \/ RequestNotified

SpecEdits == Init /\ [][NextEdits]_vars

----------------------------------------------------------------------------
(* Complaints: Progress.submitComplaint and the Complaints page *)

besideComplaints == <<now, stats, authVars, approveEdits, scheduleToast, pageVars>>

\* Progress.submitComplaint on a course of student u: a complaint to the
\* instructor of the course and one to the admin (taken in one step)
submitComplaint(u) ==
    /\ u \in DOMAIN users
    /\ EnrolledCourseIdsOf(u) # {}
    /\ autoIncrement.messages + Len(Recipients(u)) <= MaxMessages
    /\ messages' = PutAll(messages, autoIncrement.messages,
                          Letters(u, Recipients(u), "complaint"))
    /\ autoIncrement' = [autoIncrement EXCEPT !.messages = @ + Len(Recipients(u))]
    /\ UNCHANGED <<besideComplaints, complaints, users, classSessions,
                   courseEnrollments, attendanceRecords, bans>>

\* the complaints of students and of admins that loadComplaints shows to i
ComplaintsOf(i) ==
    LET inbox == Inbox(i, "complaint")
    IN  [studentComplaints |->
            [m \in {k \in DOMAIN inbox : users[inbox[k].senderId].role = "student"}
                |-> inbox[m]],
         adminComplaints |->
            [m \in {k \in DOMAIN inbox : users[inbox[k].senderId].role = "admin"}
                |-> inbox[m]]]

\* the page mounts for user i: its useEffect calls loadComplaints
OpenComplaints(i) ==
    /\ complaints = NoPage
    /\ i \in DOMAIN users
    /\ complaints' =
          [user |-> i,
           studentComplaints |-> <<>>,
           adminComplaints |-> <<>>,
           selectedComplaint |-> <<>>,
           showDetailsDialog |-> FALSE,
           response |-> FALSE,
           isLoading |-> FALSE,
           pc |-> "idle",
           reads |-> 0,
           loads |-> <<ComplaintsOf(i)>>,
           toast |-> "none"]
    /\ UNCHANGED <<besideComplaints, dbVars>>

\* a loadComplaints resolves: setStudentComplaints and setAdminComplaints
loadComplaints ==
    /\ complaints.user # 0
    /\ complaints.loads # <<>>
    /\ complaints' = [complaints EXCEPT
           !.studentComplaints = Head(complaints.loads).studentComplaints,
           !.adminComplaints = Head(complaints.loads).adminComplaints,
           !.loads = Tail(@)]
    /\ UNCHANGED <<besideComplaints, dbVars>>

\* the rows the page shows, the two lists having no key in common
ComplaintRows == complaints.studentComplaints @@ complaints.adminComplaints

\* the View button of row c: the dialog opens with an empty response, and
\* markAsRead issues its update when the row shown is pending
handleViewComplaint(c) ==
    /\ complaints.user # 0
    /\ ~complaints.showDetailsDialog
    /\ c \in DOMAIN ComplaintRows
    /\ IF ComplaintRows[c].status = "pending"
       THEN /\ complaints.reads < MaxLoads
            /\ messages' = UpdateMessage(c, "read", messages[c].metadata)
            /\ complaints' = [complaints EXCEPT
                   !.selectedComplaint = <<ComplaintRows[c]>>,
                   !.response = FALSE,
                   !.showDetailsDialog = TRUE,
                   !.reads = @ + 1]
       ELSE /\ complaints' = [complaints EXCEPT
                   !.selectedComplaint = <<ComplaintRows[c]>>,
                   !.response = FALSE,
                   !.showDetailsDialog = TRUE]
            /\ UNCHANGED messages
    /\ UNCHANGED <<besideComplaints, users, classSessions, courseEnrollments,
                   attendanceRecords, bans, autoIncrement>>

\* the update of a markAsRead has resolved: loadComplaints is called
markComplaintAsRead ==
    /\ complaints.user # 0
    /\ complaints.reads > 0
    /\ Len(complaints.loads) < MaxLoads
    /\ complaints' = [complaints EXCEPT
           !.reads = @ - 1,
           !.loads = Append(@, ComplaintsOf(complaints.user))]
    /\ UNCHANGED <<besideComplaints, dbVars>>

\* a response is typed into the dialog
setResponse ==
    /\ complaints.user # 0
    /\ complaints.showDetailsDialog
    /\ ~complaints.response
    /\ complaints' = [complaints EXCEPT !.response = TRUE]
    /\ UNCHANGED <<besideComplaints, dbVars>>

\* the dialog is closed with its Close button
CloseComplaintDialog ==
    /\ complaints.user # 0
    /\ complaints.showDetailsDialog
    /\ complaints' = [complaints EXCEPT !.showDetailsDialog = FALSE]
    /\ UNCHANGED <<besideComplaints, dbVars>>

\* the Mark as Resolved button of the dialog, shown while the selected
\* complaint is not resolved: up to the first await
resolveComplaint ==
    /\ complaints.user # 0
    /\ complaints.showDetailsDialog
    /\ complaints.selectedComplaint # <<>>
    /\ complaints.selectedComplaint[1].status # "resolved"
    /\ complaints.pc = "idle"
    /\ ~complaints.isLoading
    /\ messages' = UpdateMessage(complaints.selectedComplaint[1].id, "resolved",
                                 complaints.selectedComplaint[1].metadata)
    /\ complaints' = [complaints EXCEPT !.isLoading = TRUE, !.pc = "update"]
    /\ UNCHANGED <<besideComplaints, users, classSessions, courseEnrollments,
                   attendanceRecords, bans, autoIncrement>>

\* the update has resolved and there is a response: it is added and awaited
ComplaintAnswered ==
    /\ complaints.user # 0
    /\ complaints.pc = "update"
    /\ complaints.response
    /\ autoIncrement.messages < MaxMessages
    /\ autoIncrement' = [autoIncrement EXCEPT !.messages = @ + 1]
    /\ messages' = Put(messages, autoIncrement.messages + 1,
          [senderId |-> complaints.user,
           receiverId |-> complaints.selectedComplaint[1].senderId,
           type |-> "general",
           subject |-> "Re:",
           status |-> "pending",
           metadata |-> <<>>])
    /\ complaints' = [complaints EXCEPT !.pc = "add"]
    /\ UNCHANGED <<besideComplaints, users, classSessions, courseEnrollments,
                   attendanceRecords, bans>>

\* the last await has resolved (the update when there is no response): the
\* toast, the dialog closed, loadComplaints, and the finally block
ComplaintResolved ==
    /\ complaints.user # 0
    /\ \/ complaints.pc = "add"
       \/ complaints.pc = "update" /\ ~complaints.response
    /\ Len(complaints.loads) < MaxLoads
    /\ complaints' = [complaints EXCEPT
           !.pc = "idle",
           !.isLoading = FALSE,
           !.showDetailsDialog = FALSE,
           !.toast = "Complaint Resolved",
           !.loads = Append(@, ComplaintsOf(complaints.user))]
    /\ UNCHANGED <<besideComplaints, dbVars>>

NextComplaints ==
    \/ \E u \in Students : submitComplaint(u)
    \/ \E i \in Instructors : OpenComplaints(i)
    \/ loadComplaints
    \/ \E c \in MessageIds : handleViewComplaint(c)
    \/ markComplaintAsRead
    \/ setResponse
    \/ CloseComplaintDialog
    \/ resolveComplaint
    \/ ComplaintAnswered
    \/ ComplaintResolved

SpecComplaints == Init /\ [][NextComplaints]_vars

----------------------------------------------------------------------------
(* Attendance rates *)

\* the number Math.round yields for 0 / 0
NaN == 0 - 1

\* Math.round(num / den) for num >= 0: halves round up
MathRound(num, den) ==
    IF den = 0 THEN NaN ELSE (2 * num + den) \div (2 * den)

\* Math.round((present / total) * 100) without the total > 0 guard
RateUnguarded(present, total) == MathRound(present * 100, total)

\* total > 0 ? Math.round((present / total) * 100) : 0
Rate(present, total) ==
    IF total > 0 THEN MathRound(present * 100, total) ELSE 0

\* the present records of the whole table, whatever the group
PresentOfTable(ids) ==
    {i \in DOMAIN attendanceRecords : attendanceRecords[i].status = "present"}

\* records.filter(r => r.status === 'present'), by primary key
Present(ids) == {i \in ids : attendanceRecords[i].status = "present"}

\* db.attendanceRecords.where('studentId').equals(u)
RecordsOfStudent(u) ==
    {i \in DOMAIN attendanceRecords : attendanceRecords[i].studentId = u}

\* db.attendanceRecords.where('sessionId').equals(s)
RecordsOfSession(s) ==
    {i \in DOMAIN attendanceRecords : attendanceRecords[i].sessionId = s}

\* allRecords.filter(r => r.createdAt.startsWith(dateStr))
RecordsOfDay(d) ==
    {i \in DOMAIN attendanceRecords : DateOf(attendanceRecords[i].createdAt) = d}

\* student?.department || 'Unknown'
DepartmentOfStudent(u) ==
    IF u \in DOMAIN users /\ users[u].department # ""
    THEN users[u].department
    ELSE "Unknown"

RecordsOfDepartment(d) ==
    {i \in DOMAIN attendanceRecords :
        DepartmentOfStudent(attendanceRecords[i].studentId) = d}

\* db.classSessions.where('instructorId').equals(i)
SessionsOfInstructor(i) == {s \in SessionIds : classSessions[s].instructorId = i}

\* db.classSessions.where('courseId').equals(c)
SessionsOfCourse(c) == {s \in SessionIds : classSessions[s].courseId = c}

\* the loop over allSessions: <<n, d>> with totalAttendanceRate = n / d, the
\* sessions without records being skipped
RECURSIVE TotalAttendanceRate(_)
TotalAttendanceRate(S) ==
    IF S = {} THEN <<0, 1>>
    ELSE LET s == First(S)
             rest == TotalAttendanceRate(S \ {s})
             totalRecords == Cardinality(RecordsOfSession(s))
             presentRecords == Cardinality(Present(RecordsOfSession(s)))
         IN  IF totalRecords > 0
             THEN <<rest[1] * totalRecords + presentRecords * 100 * rest[2],
                    rest[2] * totalRecords>>
             ELSE rest

\* sessionCount > 0 ? Math.round(totalAttendanceRate / sessionCount) : 0
AverageAttendance(i) ==
    LET total == TotalAttendanceRate(SessionsOfInstructor(i))
        sessionCount == Cardinality({s \in SessionsOfInstructor(i) :
                                        RecordsOfSession(s) # {}})
    IN  IF sessionCount > 0
        THEN MathRound(total[1], total[2] * sessionCount)
        ELSE 0

\* StudentDashboard.loadStudentData: the attendance rate of the student
loadStudentData(u) ==
    /\ stats' = [view |-> "student",
                 id |-> u,
                 attendanceRate |-> Rate(Cardinality(Present(RecordsOfStudent(u))),
                                         Cardinality(RecordsOfStudent(u)))]
    /\ UNCHANGED <<now, dbVars, uiVars, pageVars>>

\* loadAttendanceStats computing over the table without its newest row
loadAttendanceStatsStale ==
    LET older == {i \in DOMAIN attendanceRecords :
                     i # autoIncrement.attendanceRecords}
    IN  /\ stats' =
              [view |-> "admin",
               overallAttendanceRate |->
                   Rate(Cardinality(Present(older)), Cardinality(older)),
               attendanceByDepartment |->
                   [d \in {DepartmentOfStudent(attendanceRecords[i].studentId) :
                              i \in older} |->
                       Rate(Cardinality(Present(RecordsOfDepartment(d) \cap older)),
                            Cardinality(RecordsOfDepartment(d) \cap older))],
               attendanceTrends |->
                   [d \in (DateOf(now) - 6)..DateOf(now) |->
                       Rate(Cardinality(Present(RecordsOfDay(d) \cap older)),
                            Cardinality(RecordsOfDay(d) \cap older))]]
        /\ UNCHANGED <<now, dbVars, uiVars, pageVars>>

\* AdminAnalytics.loadAttendanceStats: overall, by department (a key for each
\* department that has a record) and for each of the last 7 days
loadAttendanceStats ==
    /\ stats' =
          [view |-> "admin",
           overallAttendanceRate |->
               Rate(Cardinality(Present(DOMAIN attendanceRecords)),
                    Cardinality(DOMAIN attendanceRecords)),
           attendanceByDepartment |->
               [d \in {DepartmentOfStudent(attendanceRecords[i].studentId) :
                          i \in DOMAIN attendanceRecords} |->
                   Rate(Cardinality(Present(RecordsOfDepartment(d))),
                        Cardinality(RecordsOfDepartment(d)))],
           attendanceTrends |->
               [d \in (DateOf(now) - 6)..DateOf(now) |->
                   Rate(Cardinality(Present(RecordsOfDay(d))),
                        Cardinality(RecordsOfDay(d)))]]
    /\ UNCHANGED <<now, dbVars, uiVars, pageVars>>

\* InstructorDashboard.loadStats: avgAttendance
loadStats(i) ==
    /\ stats' = [view |-> "instructor", id |-> i,
                 avgAttendance |-> AverageAttendance(i)]
    /\ UNCHANGED <<now, dbVars, uiVars, pageVars>>

\* Analytics.loadAnalytics: averageAttendance, the same loop
loadAnalytics(i) ==
    /\ stats' = [view |-> "analytics", id |-> i,
                 avgAttendance |-> AverageAttendance(i)]
    /\ UNCHANGED <<now, dbVars, uiVars, pageVars>>

\* Progress.loadProgressData: the rate of the student in each enrolled course
\* whose instructor exists
loadProgressData(u) ==
    /\ stats' =
          [view |-> "progress",
           id |-> u,
           attendanceRate |->
               [c \in {x \in EnrolledCourseIdsOf(u) :
                          \E i \in Instructors : i \in DOMAIN users} |->
                   LET records == {i \in RecordsOfStudent(u) :
                                      attendanceRecords[i].sessionId
                                          \in SessionsOfCourse(c)}
                   IN  Rate(Cardinality(Present(records)), Cardinality(records))]]
    /\ UNCHANGED <<now, dbVars, uiVars, pageVars>>

\* two sessions of course 1, 09:00-10:00 of day 0 and of day 1
RateSessions ==
    <<[courseId |-> 1, instructorId |-> 3, date |-> 0, startTime |-> 9 * 60,
       endTime |-> 10 * 60, checkInMethod |-> "qr", attendanceZone |-> <<>>,
       qrToken |-> <<>>, qrExpiry |-> <<>>, isActive |-> TRUE],
      [courseId |-> 1, instructorId |-> 3, date |-> 1, startTime |-> 9 * 60,
       endTime |-> 10 * 60, checkInMethod |-> "qr", attendanceZone |-> <<>>,
       qrToken |-> <<>>, qrExpiry |-> <<>>, isActive |-> TRUE]>>

\* the values of AttendanceRecord.status, and "none" for no record
Statuses == {"present", "late", "absent"}

\* the (session, student) pairs in the order their records were added
RollPairs == <<<<1, 1>>, <<1, 2>>, <<2, 1>>, <<2, 2>>>>

\* the attendanceRecords table of a roll: a status or "none" for each pair
RollRecords(sessions, roll) ==
    LET Recorded(pr) == pr[1] \in DOMAIN sessions /\ roll[pr] # "none"
        rows == SelectSeq(RollPairs, Recorded)
    IN  [k \in 1..Len(rows) |->
            [NewRecord(rows[k][1], rows[k][2], "qr", NoData,
                       sessions[rows[k][1]].date * MinutesPerDay
                           + sessions[rows[k][1]].startTime)
             EXCEPT !.status = roll[rows[k]]]]

\* midnight after both sessions have ended; db.attendanceRecords holds rows
\* of every status
InitRates ==
    /\ now = 2 * MinutesPerDay
    /\ users = UserTable
    /\ \E n \in 1..2 : classSessions = SubSeq(RateSessions, 1, n)
    /\ courseEnrollments \in EnrollmentTables
    /\ \E roll \in [{RollPairs[k] : k \in 1..Len(RollPairs)} -> Statuses \cup {"none"}] :
          attendanceRecords = RollRecords(classSessions, roll)
    /\ messages = <<>>
    /\ bans = <<>>
    /\ autoIncrement = [NoKeys EXCEPT !.classSessions = Len(classSessions),
                                      !.attendanceRecords = Len(attendanceRecords)]
    /\ InitPages
    /\ InitAuth

NextRates ==
    \/ \E u \in Students : loadStudentData(u)
    \/ loadAttendanceStats
    \/ \E i \in Instructors : loadStats(i)
    \/ \E i \in Instructors : loadAnalytics(i)
    \/ \E u \in Students : loadProgressData(u)

SpecRates == InitRates /\ [][NextRates]_vars

\* The dashboards are loaded while a student checks in against stored
\* sessions.
NextLoads ==
    \/ NextStored
    \/ NextRates

SpecLoads == InitStored /\ [][NextLoads]_vars

----------------------------------------------------------------------------
(* Properties *)

Success == "Check-In Successful"
Already == "Already Checked In"
Failures == {"Check-In Failed", "Location Check Failed", Already}

RecordIds == DOMAIN attendanceRecords

\* the rows of attendanceRecords for session s and student u
RecordsFor(s, u) ==
    {i \in RecordIds : /\ attendanceRecords[i].sessionId = s
                       /\ attendanceRecords[i].studentId = u}

\* the instants a session starts and ends
StartOf(s) == classSessions[s].date * MinutesPerDay + classSessions[s].startTime
EndOf(s) == classSessions[s].date * MinutesPerDay + classSessions[s].endTime

\* page p completes its add in this step
Creates(p) ==
    /\ pc[p] = "ra-add"
    /\ pc'[p] = "done"
    /\ attendanceRecords' # attendanceRecords

\* C1: attendanceRecords holds at most one record for each
\* (sessionId, studentId) pair.
C1_AtMostOneRecordPerPair ==
    \A i, j \in RecordIds :
        (/\ attendanceRecords[i].sessionId = attendanceRecords[j].sessionId
         /\ attendanceRecords[i].studentId = attendanceRecords[j].studentId)
        => i = j

\* C2: two check-in attempts of one student for one session never both end
\* in "Check-In Successful": one creates the record, the other is told
\* "Already Checked In".
C2_OneSuccessOneAlready ==
    \A p, q \in Pages :
        (/\ p # q
         /\ pc[p] = "done" /\ pc[q] = "done"
         /\ user[p] = user[q]
         /\ targetSession[p] = targetSession[q]
         /\ toast[p] \in {Success, Already}
         /\ toast[q] \in {Success, Already})
        => {toast[p], toast[q]} = {Success, Already}

\* C3: a check-in whose existence check finds a record of the student for
\* the target session (the session recordAttendance resolved) ends with
\* "Already Checked In" and writes nothing, and no step of a check-in changes
\* or removes a record that is already stored.
C3_SecondCallIsIdempotent ==
    [][/\ \A i \in RecordIds :
             /\ i \in DOMAIN attendanceRecords'
             /\ attendanceRecords'[i] = attendanceRecords[i]
       /\ \A p \in Pages :
             (/\ pc[p] = "ra-existing"
              /\ pc'[p] # "ra-existing"
              /\ RecordsFor(targetSession[p], user[p]) # {})
             => /\ pc'[p] = "done"
                /\ toast'[p] = Already
                /\ attendanceRecords' = attendanceRecords]_vars

\* C3 witness: a second check-in was answered "Already Checked In" and the
\* pair still has its single record
C3_Witness ==
    \E p \in Pages :
        /\ toast[p] = Already
        /\ Cardinality(RecordsFor(targetSession[p], user[p])) = 1

\* C4: a step that ends a check-in in a failure writes nothing, and every
\* step that writes to attendanceRecords is the step that ends a check-in
\* with "Check-In Successful": a failed attempt never wrote.
C4_FailureWritesNothing ==
    [][/\ \A p \in Pages :
             (toast[p] = "none" /\ toast'[p] \in Failures)
             => attendanceRecords' = attendanceRecords
       /\ attendanceRecords' # attendanceRecords
             => \E p \in Pages : toast[p] = "none" /\ toast'[p] = Success]_vars

\* C4 witness: an attempt whose add was rejected, and one that found no
\* eligible session, both ended in failure with the table still empty
C4_Witness ==
    /\ attendanceRecords = <<>>
    /\ \E p, q \in Pages :
          /\ toast[p] = "Check-In Failed" /\ targetSession[p] # 0
          /\ toast[q] \in Failures /\ targetSession[q] = 0

\* C5: every record was created inside the window of its session: not
\* earlier than start minus the 5 minute grace period, and before the end.
C5_NoRecordOutsideWindow ==
    \A i \in RecordIds :
        LET r == attendanceRecords[i]
        IN  /\ r.checkInTime >= StartOf(r.sessionId) - 5
            /\ r.checkInTime < EndOf(r.sessionId)

\* C6: the stored status follows the time of the attempt: present up to
\* start + 15 minutes, late from then to the end of the session.
C6_StatusFromTime ==
    \A i \in RecordIds :
        LET r == attendanceRecords[i]
        IN  /\ r.checkInTime <= StartOf(r.sessionId) + 15
                => r.status = "present"
            /\ (/\ r.checkInTime > StartOf(r.sessionId) + 15
                /\ r.checkInTime < EndOf(r.sessionId))
                => r.status = "late"

\* C7: a QR check-in creates a record only when the submitted code equals
\* the current, unexpired token of the target session.
C7_TokenMustMatch ==
    [][\A p \in Pages :
          (Creates(p) /\ method[p] = "qr")
          => LET s == classSessions[targetSession[p]]
             IN  /\ s.qrToken # <<>>
                 /\ data[p].qrCode = s.qrToken
                 /\ now < s.qrExpiry[1]]_vars

\* C8: every record created by a GPS check-in holds a position no farther
\* from the center of its session's attendance zone than the zone's radius.
C8_InsideZone ==
    \A i \in RecordIds :
        LET r == attendanceRecords[i]
            zone == classSessions[r.sessionId].attendanceZone
        IN  r.checkInMethod = "gps"
            => /\ zone # <<>>
               /\ (r.location[1] - zone[1].latitude) * (r.location[1] - zone[1].latitude)
                  + (r.location[2] - zone[1].longitude) * (r.location[2] - zone[1].longitude)
                  <= zone[1].radius * zone[1].radius

\* C9: a record created by a check-in that named a session id references
\* that session id.
C9_RecordForNamedSession ==
    [][\A p \in Pages :
          (Creates(p) /\ sessionId[p] # 0)
          => \A i \in DOMAIN attendanceRecords' \ RecordIds :
                 attendanceRecords'[i].sessionId = sessionId[p]]_vars

\* C10: every attendance record belongs to a session whose course its
\* student is enrolled in.
C10_RecordOnlyIfEnrolled ==
    \A i \in RecordIds :
        LET r == attendanceRecords[i]
        IN  <<r.studentId, classSessions[r.sessionId].courseId>> \in courseEnrollments

\* C10 witness: a student obtained a record while a session of the same day,
\* earlier in the table, belongs to a course the student is not enrolled in
C10_Witness ==
    \E i \in RecordIds, s \in SessionIds :
        LET r == attendanceRecords[i]
        IN  /\ s < r.sessionId
            /\ classSessions[s].date = classSessions[r.sessionId].date
            /\ classSessions[s].isActive
            /\ <<r.studentId, classSessions[s].courseId>> \notin courseEnrollments

\* C11: no attendance record is created for a session whose isActive flag is
\* false: every stored record references an active session (the flag of a
\* stored session never changes).
C11_NoRecordForInactiveSession ==
    \A i \in RecordIds : classSessions[attendanceRecords[i].sessionId].isActive

\* C11 witness: a student obtained a record while an inactive session of the
\* same day and of a course of theirs sits earlier in the table, and the
\* student who named an inactive session got a record for another one or
\* none at all
C11_Witness ==
    /\ \E i \in RecordIds, s \in SessionIds :
          LET r == attendanceRecords[i]
          IN  /\ s < r.sessionId
              /\ ~classSessions[s].isActive
              /\ classSessions[s].date = classSessions[r.sessionId].date
              /\ <<r.studentId, classSessions[s].courseId>> \in courseEnrollments
    /\ pc[1] = "done"
    /\ sessionId[1] # 0
    /\ ~classSessions[sessionId[1]].isActive

\* C12: the method stored on a record is the checkInMethod configured on its
\* session: no record is obtained with another method.
C12_MethodOfSession ==
    \A i \in RecordIds :
        attendanceRecords[i].checkInMethod
            = classSessions[attendanceRecords[i].sessionId].checkInMethod

\* the records that count as attended: present or late
Attended(ids) ==
    {i \in ids : attendanceRecords[i].status \in {"present", "late"}}

\* (present + late) / total * 100 rounded to the nearest integer, and 0 for
\* an empty group
AttendedRate(ids) ==
    IF ids = {} THEN 0
    ELSE (200 * Cardinality(Attended(ids)) + Cardinality(ids))
             \div (2 * Cardinality(ids))

\* the students enrolled in the course of session s
EnrolledIn(s) ==
    {u \in Students : <<u, classSessions[s].courseId>> \in courseEnrollments}

\* the loaded stats are those of an instructor whose only session that has
\* records is s
StatsOfSession(s) ==
    /\ stats.view \in {"instructor", "analytics"}
    /\ s \in SessionsOfInstructor(stats.id)
    /\ \A x \in SessionsOfInstructor(stats.id) : RecordsOfSession(x) # {} => x = s

C14_NoRecordCountsAsAbsent ==
    \A s \in SessionIds :
        (/\ StatsOfSession(s)
         /\ SessionsOfInstructor(stats.id) = {s}
         /\ now >= EndOf(s)
         /\ EnrolledIn(s) # {}
         /\ \A i \in RecordsOfSession(s) : attendanceRecords[i].status # "late")
        => stats.avgAttendance
               = (200 * Cardinality(Attended(RecordsOfSession(s)))
                      + Cardinality(EnrolledIn(s)))
                 \div (2 * Cardinality(EnrolledIn(s)))

\* C19: an aggregation over an empty group yields 0 and no rate is NaN: a
\* student, a course of a student, a day, or the whole table without
\* records, and an instructor none of whose sessions has a record; a
\* department gets a rate only once it has a record.
C19_EmptyGroupYieldsZero ==
    /\ stats.view = "student"
          => /\ stats.attendanceRate # NaN
             /\ RecordsOfStudent(stats.id) = {} => stats.attendanceRate = 0
    /\ stats.view = "progress"
          => \A c \in DOMAIN stats.attendanceRate :
                 /\ stats.attendanceRate[c] # NaN
                 /\ (\A i \in RecordsOfStudent(stats.id) :
                         attendanceRecords[i].sessionId \notin SessionsOfCourse(c))
                        => stats.attendanceRate[c] = 0
    /\ stats.view = "admin"
          => /\ stats.overallAttendanceRate # NaN
             /\ RecordIds = {} => stats.overallAttendanceRate = 0
             /\ \A d \in DOMAIN stats.attendanceByDepartment :
                    /\ stats.attendanceByDepartment[d] # NaN
                    /\ RecordsOfDepartment(d) # {}
             /\ \A d \in DOMAIN stats.attendanceTrends :
                    /\ stats.attendanceTrends[d] # NaN
                    /\ RecordsOfDay(d) = {} => stats.attendanceTrends[d] = 0
    /\ stats.view \in {"instructor", "analytics"}
          => /\ stats.avgAttendance # NaN
             /\ (\A s \in SessionsOfInstructor(stats.id) : RecordsOfSession(s) = {})
                    => stats.avgAttendance = 0

\* C19 witness: the admin analytics were loaded with a day of the week that
\* has no record, shown as 0, next to a day that has one
C19_Witness ==
    /\ stats.view = "admin"
    /\ \E d, e \in DOMAIN stats.attendanceTrends :
          /\ RecordsOfDay(d) = {}
          /\ stats.attendanceTrends[d] = 0
          /\ stats.attendanceTrends[e] > 0

\* C15: the sessionId of every attendance record is the key of a stored
\* class session.
C15_RecordsReferenceSessions ==
    \A i \in RecordIds : attendanceRecords[i].sessionId \in SessionIds

\* the flow of page p came from the scan timer or from the location check
ScanOrLocation(p) ==
    \/ method[p] = "gps"
    \/ /\ data[p].qrCode # <<>>
       /\ data[p].qrCode[1] = "INSTRUCTOR_QR"

\* C16: a QR scan or a location check the student left with Back, before its
\* record was persisted, writes no attendance record afterwards.
C16_AbandonedWritesNothing ==
    [][\A p \in Pages :
          (Creates(p) /\ ScanOrLocation(p)) => selectedMethod[p] # "null"]_vars

\* C18: a stored attendance record never changes, and it leaves the table
\* only in a step that deletes its student's account (the account is gone
\* when the step is over: deleteAccount also runs for a student whose row
\* the admin has deleted meanwhile).
C18_RecordIsTerminal ==
    [][\A i \in RecordIds :
          \/ /\ i \in DOMAIN attendanceRecords'
             /\ attendanceRecords'[i] = attendanceRecords[i]
          \/ /\ i \notin DOMAIN attendanceRecords'
             /\ attendanceRecords[i].studentId \notin DOMAIN users'
             /\ \/ attendanceRecords[i].studentId \in DOMAIN users
                \/ \E t \in Tabs :
                       /\ authUser[t].id = attendanceRecords[i].studentId
                       /\ authUser'[t].id = 0]_vars

\* C18 witness: a record was stored, the admin deleted the instructor with
\* the sessions, and a student deleted their own account (the enrollments
\* are still there): no record is left
C18_Witness ==
    /\ \E u \in Students : u \notin DOMAIN users
    /\ \A i \in Instructors : i \notin DOMAIN users
    /\ autoIncrement.classSessions > 0
    /\ SessionIds = {}
    /\ autoIncrement.attendanceRecords > 0
    /\ RecordIds = {}
    /\ courseEnrollments = {<<1, 1>>, <<1, 2>>, <<2, 1>>}

\* C17: at or after the end time of a session its isActive flag is false.
C17_InactiveAfterEnd ==
    \A s \in SessionIds : now >= EndOf(s) => ~classSessions[s].isActive

\* C20: when the position is not acquired (getCurrentPosition rejects, the
\* 10 s timeout included) the location check ends in that step with
\* "Location Check Failed", writes no attendance record and leaves
\* isCheckingLocation false.
C20_LocationFailureEnds ==
    [][\A p \in Pages :
          (/\ pc[p] = "loc-position"
           /\ pc'[p] # "loc-position"
           /\ data'[p].location = <<>>)
          => /\ pc'[p] = "done"
             /\ toast'[p] = "Location Check Failed"
             /\ attendanceRecords' = attendanceRecords
             /\ isCheckingLocation[p]
             /\ ~isCheckingLocation'[p]]_vars

\* C20 witness: with an active session of a course of theirs today, the
\* student's location check ended in "Location Check Failed" with no record
\* and the spinner cleared
C20_Witness ==
    /\ pc[1] = "done"
    /\ selectedMethod[1] = "location"
    /\ toast[1] = "Location Check Failed"
    /\ ~isCheckingLocation[1]
    /\ RecordIds = {}
    /\ now = 536
    /\ \E s \in SessionIds :
          /\ classSessions[s].isActive
          /\ classSessions[s].date = DateOf(now)
          /\ <<user[1], classSessions[s].courseId>> \in courseEnrollments

\* the rate of a group of stored records: present / total * 100 rounded, and
\* 0 for no record
StoredRate(ids) ==
    IF ids = {} THEN 0
    ELSE (200 * Cardinality({i \in ids : attendanceRecords[i].status = "present"})
              + Cardinality(ids)) \div (2 * Cardinality(ids))

C23_StartBeforeEnd ==
    [][/\ \A s \in DOMAIN classSessions' :
             classSessions'[s].startTime < classSessions'[s].endTime
       /\ (scheduleToast' = "Invalid Time" /\ scheduleToast # "Invalid Time")
             => /\ classSessions' = classSessions
                /\ messages' = messages
                /\ autoIncrement' = autoIncrement]_vars

\* C23 witness: after a class was scheduled and its two enrolled students
\* notified, and a quiz session stored, a form was turned down: two
\* sessions and the two notices are all there is
C23_Witness ==
    /\ scheduleToast = "Invalid Time"
    /\ SessionIds = {1, 2}
    /\ \E s, q \in SessionIds :
          /\ classSessions[s].attendanceZone # <<>>
          /\ classSessions[q].attendanceZone = <<>>
    /\ DOMAIN messages = {1, 2}
    /\ \A m \in DOMAIN messages : messages[m].subject = "New Class Scheduled"

\* the account a tab or the stored id names is an instructor waiting for
\* approval
Unapproved(u) ==
    /\ u \in DOMAIN users
    /\ users[u].role = "instructor"
    /\ ~users[u].isApproved

\* C24: the authenticated user (the user state of an AuthProvider, or the
\* account the stored attendanceUserId names) is never an instructor whose
\* isApproved is false.
C24_NoUnapprovedInstructor ==
    /\ ~Unapproved(attendanceUserId)
    /\ \A t \in Tabs :
          /\ ~Unapproved(authUser[t].id)
          /\ authUser[t].id # 0
                => ~(authUser[t].role = "instructor" /\ ~authUser[t].isApproved)

\* C24 witness: an instructor registered in one tab and is stored unapproved
\* with nobody logged in there, and a login in the other tab was answered
\* "Account Pending"
C24_Witness ==
    \E t, o \in Tabs, u \in DOMAIN users :
        /\ Unapproved(u)
        /\ authToast[t] = "Registration Successful"
        /\ authToast[o] = "Account Pending"
        /\ authUser[t] = NoUser
        /\ authUser[o] = NoUser
        /\ attendanceUserId = 0

\* C25: no two user accounts share an email.
C25_UniqueEmails ==
    \A u, v \in DOMAIN users : users[u].email = users[v].email => u = v

\* user u has a ban that is active and has not expired
ActiveBan(u) ==
    \E b \in DOMAIN bans :
        /\ bans[b].userId = u
        /\ bans[b].isActive
        /\ bans[b].expiresAt > now

\* C29: a user with an active, unexpired ban does not become the
\* authenticated user: no login or session restore sets the user state of a
\* tab to that account.
C29_BannedCannotAuthenticate ==
    [][\A t \in Tabs :
          (authUser'[t].id # 0 /\ authUser'[t] # authUser[t])
          => ~ActiveBan(authUser'[t].id)]_vars

\* C26: no row of a table references a user that has been deleted: the
\* student of an attendance record or of an enrollment, the sender and the
\* receiver of a message, the user of a ban and the instructor of a class
\* session are stored accounts.
C26_NoDanglingReferences ==
    /\ \A i \in RecordIds : attendanceRecords[i].studentId \in DOMAIN users
    /\ \A e \in courseEnrollments : e[1] \in DOMAIN users
    /\ \A m \in DOMAIN messages :
          /\ messages[m].senderId \in DOMAIN users
          /\ messages[m].receiverId \in DOMAIN users
    /\ \A b \in DOMAIN bans : bans[b].userId \in DOMAIN users
    /\ \A c \in SessionIds : classSessions[c].instructorId \in DOMAIN users

\* a step of the ApproveEdits page in which a row button was clicked: the
\* selected request changes with the dialog closed
RowClicked ==
    /\ approveEdits.user # 0
    /\ approveEdits'.user # 0
    /\ ~approveEdits.showDetailsDialog
    /\ ~approveEdits'.showDetailsDialog
    /\ approveEdits'.selectedRequest # approveEdits.selectedRequest

\* C27: a click on Approve or Deny of a row resolves the request of that
\* row with the decision clicked and starts the notification of its sender:
\* it does not resolve another request and it does not do nothing.
C27_RowButtonResolvesItsRow ==
    [][RowClicked =>
          LET request == approveEdits'.selectedRequest[1]
          IN  /\ approveEdits'.pc = "update"
              /\ approveEdits'.sender = request.senderId
              /\ messages'[request.id].status = "resolved"
              /\ messages'[request.id].metadata = <<approveEdits'.approved>>
              /\ \A m \in DOMAIN messages \ {request.id} :
                     messages'[m] = messages[m]]_vars

\* C28: a message whose status is 'resolved' keeps that status as long as it
\* is stored.
C28_ResolvedStaysResolved ==
    [][\A m \in DOMAIN messages :
          (messages[m].status = "resolved" /\ m \in DOMAIN messages')
          => messages'[m].status = "resolved"]_vars

\* the values a rate shown as a percentage can take
Percentages == 0..100

====
